---- MODULE Spec2Model ----
(***************************************************************************)
(* VaultbornStaking: confidential ETH staking certificates.                *)
(* Model of contracts/VaultbornStaking.sol: stake, redeem and the oracle   *)
(* callback onDecryptionFulfilled, together with the inherited ERC-721     *)
(* registry, the reentrancy guard and the FHE library calls it makes.      *)
(* A transaction that meets a require() that fails reverts: every write of *)
(* the transaction is undone.  A call that hands control to another        *)
(* contract (the ERC-721 receiver hook of _safeMint, the receive hook of   *)
(* the value transfer) is split at that point, so that the state the       *)
(* callee sees and what it may do there are part of the model.             *)
(***************************************************************************)
EXTENDS Integers, Sequences, FiniteSets, TLC

\* ------------------------------------------------------------------ bounds
MaxTokens == 2
MaxAmount == 2
MaxApprovals == 1
\* certificates in the runs that exercise the owner enumeration
MaxEnumTokens == 3

\* --------------------------------------------------------------- addresses
Zero == "0x0"
This == "staking"
Oracle == "oracle"
EOAs == {"alice"}
Contracts == {"mallory"}
Users == EOAs \cup Contracts
Addr == Users \cup {Oracle}

TokenIds == 0..MaxTokens
RequestIds == 0..MaxTokens
Values == 0..MaxAmount

\* ----------------------------------------------------------- revert reasons
ZeroAmount == "Stake must be greater than zero"
StakeNotFound == "Stake not found"
InvalidCertificate == "Invalid token"
Unauthorized == "Not authorized"
RedemptionAlreadyPending == "Decryption pending"
InvalidOracle == "Invalid oracle"
UnknownRequest == "Unknown request"
InvalidProof == "InvalidKMSSignatures"
TransferFailed == "Transfer failed"
ReentrantCall == "ReentrancyGuardReentrantCall"
InvalidReceiver == "ERC721InvalidReceiver"
DecodeError == "abi.decode"
Ok == "ok"

\* ReentrancyGuard._status
NOT_ENTERED == 1
ENTERED == 2

NoHandle == 0
NoPending == [recipient |-> Zero, tokenId |-> 0, exists |-> FALSE]
Forged == [requestId |-> -1, cleartexts |-> <<>>]

VARIABLES
    decryptionOracle, enforceOracleCheck,
    nextTokenId, encryptedStakes, pendingByRequest, requestByToken, isTokenPending,
    owners, tokenApprovals, operatorApprovals, ownedTokens,
    status, balance, transfers, log,
    ciphertexts, acl, requestedHandles, counterRequest,
    pc, frame, saved, aborted

immutables == <<decryptionOracle, enforceOracleCheck>>
ledgerVars == <<nextTokenId, encryptedStakes, pendingByRequest, requestByToken, isTokenPending,
                owners, tokenApprovals, operatorApprovals, ownedTokens,
                status, balance, transfers, log,
                ciphertexts, acl, requestedHandles, counterRequest>>
vars == <<immutables, ledgerVars, pc, frame, saved, aborted>>

\* Everything a revert rolls back, as one value.
Ledger ==
    [nextTokenId |-> nextTokenId, encryptedStakes |-> encryptedStakes,
     pendingByRequest |-> pendingByRequest, requestByToken |-> requestByToken,
     isTokenPending |-> isTokenPending,
     owners |-> owners, tokenApprovals |-> tokenApprovals,
     operatorApprovals |-> operatorApprovals, ownedTokens |-> ownedTokens,
     status |-> status, balance |-> balance, transfers |-> transfers, log |-> log,
     ciphertexts |-> ciphertexts, acl |-> acl,
     requestedHandles |-> requestedHandles, counterRequest |-> counterRequest]

Commit(L) ==
    /\ nextTokenId' = L.nextTokenId
    /\ encryptedStakes' = L.encryptedStakes
    /\ pendingByRequest' = L.pendingByRequest
    /\ requestByToken' = L.requestByToken
    /\ isTokenPending' = L.isTokenPending
    /\ owners' = L.owners
    /\ tokenApprovals' = L.tokenApprovals
    /\ operatorApprovals' = L.operatorApprovals
    /\ ownedTokens' = L.ownedTokens
    /\ status' = L.status
    /\ balance' = L.balance
    /\ transfers' = L.transfers
    /\ log' = L.log
    /\ ciphertexts' = L.ciphertexts
    /\ acl' = L.acl
    /\ requestedHandles' = L.requestedHandles
    /\ counterRequest' = L.counterRequest

\* The ledger with the reentrancy status left out: what the queries, the
\* registry and the value transfers can observe.
Shared(L) == [L EXCEPT !.status = NOT_ENTERED]

\* ------------------------------------------------------- sequence helpers
IndexOf(s, x) == CHOOSE i \in 1..Len(s) : s[i] = x
Contains(s, x) == \E i \in 1..Len(s) : s[i] = x
RECURSIVE SumOver(_, _)
SumOver(f, S) == IF S = {} THEN 0
                 ELSE LET x == CHOOSE y \in S : TRUE IN f[x] + SumOver(f, S \ {x})

\* ------------------------------------------------------------ call results
\* A call either returns (err = Ok), reverts (err names the reason, L is the
\* state the revert restores) or is suspended in a callee's hook.
NoHook == "none"
\* mutation: a failing require returns without undoing the writes made so far
Revert_NoRollback(pre, cur) == cur
Revert(pre, cur) == pre
NoCtx == [callee |-> Zero, tokenId |-> 0, amount |-> 0]
Fail(pre, cur, err) == [L |-> Revert(pre, cur), err |-> err, ret |-> 0, hook |-> NoHook, ctx |-> NoCtx]
Done(L, ret) == [L |-> L, err |-> Ok, ret |-> ret, hook |-> NoHook, ctx |-> NoCtx]
Suspend(L, hook, ctx) == [L |-> L, err |-> Ok, ret |-> 0, hook |-> hook, ctx |-> ctx]

\* ------------------------------------------------- ReentrancyGuard (OZ)
\* mutation: the nonReentrant modifier is missing
NonReentrantBlocked_Never(L) == FALSE
NonReentrantBlocked(L) == L.status = ENTERED
NonReentrantBefore(L) == [L EXCEPT !.status = ENTERED]
NonReentrantAfter(L) == [L EXCEPT !.status = NOT_ENTERED]

\* ------------------------------------------- ERC721 / ERC721Enumerable (OZ)
_ownerOf(L, tokenId) == L.owners[tokenId]
balanceOf(L, account) == Len(L.ownedTokens[account])
\* mutation: the operator approval is looked up the wrong way round
isApprovedForAll_Reversed(L, owner, operator) == <<operator, owner>> \in L.operatorApprovals
isApprovedForAll(L, owner, operator) == <<owner, operator>> \in L.operatorApprovals
_getApproved(L, tokenId) == L.tokenApprovals[tokenId]
\* mutation: the authorization check accepts every caller
_isAuthorized_Anyone(L, owner, spender, tokenId) == TRUE
_isAuthorized(L, owner, spender, tokenId) ==
    /\ spender # Zero
    /\ \/ owner = spender
       \/ isApprovedForAll(L, owner, spender)
       \/ _getApproved(L, tokenId) = spender

\* mutation: a newly acquired certificate is put in front of the owner's list
_addTokenToOwnerEnumeration_Prepends(tokens, tokenId) == <<tokenId>> \o tokens
_addTokenToOwnerEnumeration(tokens, tokenId) == Append(tokens, tokenId)
\* swap-and-pop: the last token takes the slot of the removed one
\* mutation: a removed certificate stays in the owner's list
_removeTokenFromOwnerEnumeration_Noop(tokens, tokenId) == tokens
_removeTokenFromOwnerEnumeration(tokens, tokenId) ==
    LET tokenIndex == IndexOf(tokens, tokenId)
        lastTokenIndex == Len(tokens)
        moved == IF tokenIndex # lastTokenIndex
                 THEN [tokens EXCEPT ![tokenIndex] = tokens[lastTokenIndex]]
                 ELSE tokens
    IN SubSeq(moved, 1, lastTokenIndex - 1)

\* ERC721Enumerable._update(to, tokenId, auth) after the authorization check
_update(L, to, tokenId) ==
    LET from == _ownerOf(L, tokenId)
        L1 == [L EXCEPT !.tokenApprovals[tokenId] = Zero, !.owners[tokenId] = to]
        L2 == IF from # Zero /\ from # to
              THEN [L1 EXCEPT !.ownedTokens[from] = _removeTokenFromOwnerEnumeration(@, tokenId)]
              ELSE L1
    IN IF to # Zero /\ to # from
       THEN [L2 EXCEPT !.ownedTokens[to] = _addTokenToOwnerEnumeration(@, tokenId)]
       ELSE L2
_mint(L, to, tokenId) == _update(L, to, tokenId)
\* mutations: the certificate is not burned / only its approval is cleared
_burn_Noop(L, tokenId) == L
_burn_ApprovalOnly(L, tokenId) == [L EXCEPT !.tokenApprovals[tokenId] = Zero]
\* mutation: burning a certificate releases its id to the counter
_burn_ReleasesId(L, tokenId) == [_update(L, Zero, tokenId) EXCEPT !.nextTokenId = tokenId]
_burn(L, tokenId) == _update(L, Zero, tokenId)

\* --------------------------------------------------------- FHE library
\* A handle is an opaque nonzero reference; ciphertexts[h] is the plaintext
\* the coprocessor holds for handle h, which the ledger itself never reads.
\* mutation: the amount is truncated when it is encrypted
FHE_asEuint256_Truncated(L, value) ==
    [L EXCEPT !.ciphertexts = Append(@, value % 2), !.acl = Append(@, {})]
FHE_asEuint256(L, value) == [L EXCEPT !.ciphertexts = Append(@, value), !.acl = Append(@, {})]
\* mutation: every encryption yields the same handle
FHE_newHandle_Constant(L) == 1
FHE_newHandle(L) == Len(L.ciphertexts) + 1
FHE_allow(L, handle, account) == [L EXCEPT !.acl[handle] = @ \cup {account}]
FHE_allowThis(L, handle) == FHE_allow(L, handle, This)
FHE_isInitialized(handle) == handle # NoHandle
FHE_toBytes32(handle) == handle
\* mutation: the oracle hands out the same request id again
FHE_requestDecryption_SameId(L, cts) ==
    [L EXCEPT !.requestedHandles[L.counterRequest] = cts]
FHE_requestDecryption(L, cts) ==
    [L EXCEPT !.requestedHandles[L.counterRequest] = cts, !.counterRequest = @ + 1]
\* What the KMS signs for a request: the plaintexts of the submitted handles.
Decryption(L, requestId) ==
    [i \in 1..Len(L.requestedHandles[requestId]) |-> L.ciphertexts[L.requestedHandles[requestId][i]]]
KmsProofs(L) ==
    {[requestId |-> r, cleartexts |-> Decryption(L, r)] :
        r \in {q \in RequestIds : L.requestedHandles[q] # <<>>}}
\* mutation: no proof is ever accepted
FHE_checkSignatures_RejectAll(L, requestId, cleartexts, decryptionProof) == FALSE
\* mutation: the proof is not verified
FHE_checkSignatures_AcceptAll(L, requestId, cleartexts, decryptionProof) == TRUE
FHE_checkSignatures(L, requestId, cleartexts, decryptionProof) ==
    /\ L.requestedHandles[requestId] # <<>>
    /\ decryptionProof \in KmsProofs(L)
    /\ decryptionProof.requestId = requestId
    /\ decryptionProof.cleartexts = cleartexts
\* mutation: the released amount is not the decoded cleartext
abi_decode_Constant(cleartexts) == 1
abi_decode(cleartexts) == cleartexts[1]

\* mutation: a new event is put at the head of the log
Emit_Prepends(L, name, staker, tokenId, data) ==
    [L EXCEPT !.log = <<[name |-> name, staker |-> staker, tokenId |-> tokenId, data |-> data]>> \o @]
Emit(L, name, staker, tokenId, data) ==
    [L EXCEPT !.log = Append(@, [name |-> name, staker |-> staker, tokenId |-> tokenId, data |-> data])]

\* ------------------------------------------------------------------ stake
\* lines 49-57: encrypt msg.value, grant view, bind it to the certificate
\* mutation: the encrypted amount is not bound to the certificate
StoreStake_Unbound(L, tokenId, handle) ==
    [L EXCEPT !.requestByToken[tokenId] = 0, !.isTokenPending[tokenId] = FALSE]
StoreStake(L, tokenId, handle) ==
    [L EXCEPT !.encryptedStakes[tokenId] = handle,
              !.requestByToken[tokenId] = 0,
              !.isTokenPending[tokenId] = FALSE]
stakeAfterMint(L, sender, tokenId, value) ==
    LET encryptedAmount == FHE_newHandle(L)
        L1 == FHE_asEuint256(L, value)
        L2 == FHE_allowThis(L1, encryptedAmount)
        L3 == FHE_allow(L2, encryptedAmount, sender)
        L4 == StoreStake(L3, tokenId, encryptedAmount)
        L5 == Emit(L4, "StakeMinted", sender, tokenId, FHE_toBytes32(encryptedAmount))
    IN Done(NonReentrantAfter(L5), tokenId)

\* mutation: the amount is not checked
stake_NoZeroCheck(L, sender, value) ==
    IF NonReentrantBlocked(L) THEN Fail(L, L, ReentrantCall)
    ELSE LET L0 == NonReentrantBefore([L EXCEPT !.balance = @ + value])
             tokenId == L0.nextTokenId
             L1 == [L0 EXCEPT !.nextTokenId = tokenId + 1]
             L2 == _mint(L1, sender, tokenId)
         IN IF sender \in Contracts
            THEN Suspend(L2, "onERC721Received",
                         [callee |-> sender, tokenId |-> tokenId, amount |-> value])
            ELSE stakeAfterMint(L2, sender, tokenId, value)
\* lines 41-47; msg.value is credited to the contract when the call starts
stake(L, sender, value) ==
    IF NonReentrantBlocked(L) THEN Fail(L, L, ReentrantCall)
    ELSE LET L0 == NonReentrantBefore([L EXCEPT !.balance = @ + value]) IN
         IF ~(value > 0) THEN Fail(L, L0, ZeroAmount)
         ELSE LET tokenId == L0.nextTokenId
                  L1 == [L0 EXCEPT !.nextTokenId = tokenId + 1]
                  L2 == _mint(L1, sender, tokenId)
              IN IF sender \in Contracts
                 THEN Suspend(L2, "onERC721Received",
                              [callee |-> sender, tokenId |-> tokenId, amount |-> value])
                 ELSE stakeAfterMint(L2, sender, tokenId, value)

\* mutation: a refusing receiver reverts nothing (the mint stays)
stakeResume_KeepsMint(pre, L, sender, ctx, accepted) ==
    IF ~accepted THEN Fail(L, L, InvalidReceiver)
    ELSE stakeAfterMint(L, sender, ctx.tokenId, ctx.amount)
\* _safeMint's ERC721Utils.checkOnERC721Received: a receiver that reverts or
\* returns a wrong selector aborts the mint
stakeResume(pre, L, sender, ctx, accepted) ==
    IF ~accepted THEN Fail(pre, L, InvalidReceiver)
    ELSE stakeAfterMint(L, sender, ctx.tokenId, ctx.amount)

\* ----------------------------------------------------------------- redeem
\* mutation: the encrypted balance is not cleared
ClearStake_Noop(L, tokenId) == L
\* mutation: clearing one balance clears them all
ClearStake_All(L, tokenId) == [L EXCEPT !.encryptedStakes = [t \in DOMAIN @ |-> NoHandle]]
ClearStake(L, tokenId) == [L EXCEPT !.encryptedStakes[tokenId] = NoHandle]
\* mutation: every record is written to the same slot
RegisterPending_SlotZero(L, requestId, beneficiary, tokenId) ==
    [L EXCEPT !.pendingByRequest[0] =
                  [recipient |-> beneficiary, tokenId |-> tokenId, exists |-> TRUE],
              !.requestByToken[tokenId] = requestId,
              !.isTokenPending[tokenId] = TRUE]
\* mutation: the index from certificate to request is not written
RegisterPending_NoIndex(L, requestId, beneficiary, tokenId) ==
    [L EXCEPT !.pendingByRequest[requestId] =
                  [recipient |-> beneficiary, tokenId |-> tokenId, exists |-> TRUE],
              !.isTokenPending[tokenId] = TRUE]
RegisterPending(L, requestId, beneficiary, tokenId) ==
    [L EXCEPT !.pendingByRequest[requestId] =
                  [recipient |-> beneficiary, tokenId |-> tokenId, exists |-> TRUE],
              !.requestByToken[tokenId] = requestId,
              !.isTokenPending[tokenId] = TRUE]

\* mutation: the caller's authorization is checked before the certificate's existence
redeem_AuthorizationFirst(L, sender, tokenId) ==
    IF NonReentrantBlocked(L) THEN Fail(L, L, ReentrantCall)
    ELSE LET L0 == NonReentrantBefore(L)
             owner == _ownerOf(L0, tokenId)
             encryptedAmount == L0.encryptedStakes[tokenId]
         IN
         IF ~_isAuthorized(L0, owner, sender, tokenId) THEN Fail(L, L0, Unauthorized)
         ELSE IF ~(owner # Zero) THEN Fail(L, L0, InvalidCertificate)
         ELSE IF ~(~L0.isTokenPending[tokenId]) THEN Fail(L, L0, RedemptionAlreadyPending)
         ELSE IF ~FHE_isInitialized(encryptedAmount) THEN Fail(L, L0, StakeNotFound)
         ELSE LET beneficiary == owner
                  ciphertexts_ == <<FHE_toBytes32(encryptedAmount)>>
                  L1 == ClearStake(L0, tokenId)
                  L2 == _burn(L1, tokenId)
                  requestId == L2.counterRequest
                  L3 == FHE_requestDecryption(L2, ciphertexts_)
                  L4 == RegisterPending(L3, requestId, beneficiary, tokenId)
                  L5 == Emit(L4, "WithdrawRequested", beneficiary, tokenId, requestId)
              IN Done(NonReentrantAfter(L5), requestId)
\* mutation: the caller of redeem, not the holder, is recorded as beneficiary
redeem_PaysCaller(L, sender, tokenId) ==
    IF NonReentrantBlocked(L) THEN Fail(L, L, ReentrantCall)
    ELSE LET L0 == NonReentrantBefore(L)
             owner == _ownerOf(L0, tokenId)
             encryptedAmount == L0.encryptedStakes[tokenId]
         IN
         IF ~(owner # Zero) THEN Fail(L, L0, InvalidCertificate)
         ELSE IF ~_isAuthorized(L0, owner, sender, tokenId) THEN Fail(L, L0, Unauthorized)
         ELSE IF ~(~L0.isTokenPending[tokenId]) THEN Fail(L, L0, RedemptionAlreadyPending)
         ELSE IF ~FHE_isInitialized(encryptedAmount) THEN Fail(L, L0, StakeNotFound)
         ELSE LET beneficiary == sender
                  ciphertexts_ == <<FHE_toBytes32(encryptedAmount)>>
                  L1 == ClearStake(L0, tokenId)
                  L2 == _burn(L1, tokenId)
                  requestId == L2.counterRequest
                  L3 == FHE_requestDecryption(L2, ciphertexts_)
                  L4 == RegisterPending(L3, requestId, beneficiary, tokenId)
                  L5 == Emit(L4, "WithdrawRequested", beneficiary, tokenId, requestId)
              IN Done(NonReentrantAfter(L5), requestId)
redeem(L, sender, tokenId) ==
    IF NonReentrantBlocked(L) THEN Fail(L, L, ReentrantCall)
    ELSE LET L0 == NonReentrantBefore(L)
             owner == _ownerOf(L0, tokenId)
             encryptedAmount == L0.encryptedStakes[tokenId]
         IN
         IF ~(owner # Zero) THEN Fail(L, L0, InvalidCertificate)
         ELSE IF ~_isAuthorized(L0, owner, sender, tokenId) THEN Fail(L, L0, Unauthorized)
         ELSE IF ~(~L0.isTokenPending[tokenId]) THEN Fail(L, L0, RedemptionAlreadyPending)
         ELSE IF ~FHE_isInitialized(encryptedAmount) THEN Fail(L, L0, StakeNotFound)
         ELSE LET beneficiary == owner
                  ciphertexts_ == <<FHE_toBytes32(encryptedAmount)>>
                  L1 == ClearStake(L0, tokenId)
                  L2 == _burn(L1, tokenId)
                  requestId == L2.counterRequest
                  L3 == FHE_requestDecryption(L2, ciphertexts_)
                  L4 == RegisterPending(L3, requestId, beneficiary, tokenId)
                  L5 == Emit(L4, "WithdrawRequested", beneficiary, tokenId, requestId)
              IN Done(NonReentrantAfter(L5), requestId)

\* The ledger as the decryption oracle finds it when redeem calls
\* FHE.requestDecryption (line 117): lines 114-115 have run, lines 119-121 not yet.
\* mutation: the record, index and flag are written before the oracle is called
redeemOracleView_Registered(L, sender, tokenId) ==
    LET L2 == _burn(ClearStake(NonReentrantBefore(L), tokenId), tokenId)
    IN RegisterPending(L2, L2.counterRequest, _ownerOf(L, tokenId), tokenId)
redeemOracleView(L, sender, tokenId) ==
    _burn(ClearStake(NonReentrantBefore(L), tokenId), tokenId)

\* ------------------------------------------------- onDecryptionFulfilled
\* mutations: the record is not deleted / the pending flag and index are not cleared
ConsumePending_KeepRecord(L, requestId, tokenId) ==
    [L EXCEPT !.isTokenPending[tokenId] = FALSE, !.requestByToken[tokenId] = 0]
ConsumePending_KeepFlag(L, requestId, tokenId) ==
    [L EXCEPT !.pendingByRequest[requestId] = NoPending]
\* mutation: consuming one request clears the pending state of every certificate
ConsumePending_ClearsAll(L, requestId, tokenId) ==
    [L EXCEPT !.pendingByRequest[requestId] = NoPending,
              !.isTokenPending = [t \in DOMAIN @ |-> FALSE],
              !.requestByToken = [t \in DOMAIN @ |-> 0]]
\* mutation: the record, the flag and the index are left for after the transfer
ConsumePending_Noop(L, requestId, tokenId) == L
ConsumePending(L, requestId, tokenId) ==
    [L EXCEPT !.pendingByRequest[requestId] = NoPending,
              !.isTokenPending[tokenId] = FALSE,
              !.requestByToken[tokenId] = 0]
\* recipient.call{value: amount}(""): the value moves before the callee runs
\* mutation: the value goes to the account that staked, not to the recorded beneficiary
SendValue_ToOriginalStaker(L, to, amount, requestId, tokenId) ==
    LET i == CHOOSE k \in DOMAIN L.log :
                 L.log[k].name = "StakeMinted" /\ L.log[k].tokenId = tokenId
    IN [L EXCEPT !.balance = @ - amount,
                 !.transfers = Append(@, [to |-> L.log[i].staker, amount |-> amount,
                                          requestId |-> requestId, tokenId |-> tokenId])]
SendValue(L, to, amount, requestId, tokenId) ==
    [L EXCEPT !.balance = @ - amount,
              !.transfers = Append(@, [to |-> to, amount |-> amount,
                                       requestId |-> requestId, tokenId |-> tokenId])]
\* mutation: the completion event reports the value still held, not the amount paid
fulfillAfterTransfer_LogsHeldValue(L, recipient, tokenId, amount) ==
    Done(NonReentrantAfter(Emit(L, "WithdrawCompleted", recipient, tokenId, L.balance)), 1)
fulfillAfterTransfer(L, recipient, tokenId, amount) ==
    Done(NonReentrantAfter(Emit(L, "WithdrawCompleted", recipient, tokenId, amount)), 1)

\* mutation: the sender is not checked in strict mode
onDecryptionFulfilled_AnySender(L, sender, requestId, cleartexts, decryptionProof) ==
    IF NonReentrantBlocked(L) THEN Fail(L, L, ReentrantCall)
    ELSE LET L0 == NonReentrantBefore(L)
             pending == L0.pendingByRequest[requestId]
         IN
         IF ~pending.exists THEN Fail(L, L0, UnknownRequest)
         ELSE IF ~FHE_checkSignatures(L0, requestId, cleartexts, decryptionProof)
              THEN Fail(L, L0, InvalidProof)
         ELSE IF Len(cleartexts) < 1 THEN Fail(L, L0, DecodeError)
         ELSE LET amount == abi_decode(cleartexts)
                  L1 == ConsumePending(L0, requestId, pending.tokenId)
              IN IF amount > L1.balance THEN Fail(L, L1, TransferFailed)
                 ELSE LET L2 == SendValue(L1, pending.recipient, amount, requestId, pending.tokenId)
                      IN IF pending.recipient \in Contracts
                         THEN Suspend(L2, "receive",
                                      [callee |-> pending.recipient,
                                       tokenId |-> pending.tokenId, amount |-> amount])
                         ELSE fulfillAfterTransfer(L2, pending.recipient, pending.tokenId, amount)
\* mutation: the existence of the record is not checked
onDecryptionFulfilled_NoRecordCheck(L, sender, requestId, cleartexts, decryptionProof) ==
    IF NonReentrantBlocked(L) THEN Fail(L, L, ReentrantCall)
    ELSE LET L0 == NonReentrantBefore(L)
             pending == L0.pendingByRequest[requestId]
         IN
         IF enforceOracleCheck /\ ~(sender = decryptionOracle) THEN Fail(L, L0, InvalidOracle)
         ELSE IF ~FHE_checkSignatures(L0, requestId, cleartexts, decryptionProof)
              THEN Fail(L, L0, InvalidProof)
         ELSE IF Len(cleartexts) < 1 THEN Fail(L, L0, DecodeError)
         ELSE LET amount == abi_decode(cleartexts)
                  L1 == ConsumePending(L0, requestId, pending.tokenId)
              IN IF amount > L1.balance THEN Fail(L, L1, TransferFailed)
                 ELSE LET L2 == SendValue(L1, pending.recipient, amount, requestId, pending.tokenId)
                      IN IF pending.recipient \in Contracts
                         THEN Suspend(L2, "receive",
                                      [callee |-> pending.recipient,
                                       tokenId |-> pending.tokenId, amount |-> amount])
                         ELSE fulfillAfterTransfer(L2, pending.recipient, pending.tokenId, amount)
onDecryptionFulfilled(L, sender, requestId, cleartexts, decryptionProof) ==
    IF NonReentrantBlocked(L) THEN Fail(L, L, ReentrantCall)
    ELSE LET L0 == NonReentrantBefore(L)
             pending == L0.pendingByRequest[requestId]
         IN
         IF enforceOracleCheck /\ ~(sender = decryptionOracle) THEN Fail(L, L0, InvalidOracle)
         ELSE IF ~pending.exists THEN Fail(L, L0, UnknownRequest)
         ELSE IF ~FHE_checkSignatures(L0, requestId, cleartexts, decryptionProof)
              THEN Fail(L, L0, InvalidProof)
         ELSE IF Len(cleartexts) < 1 THEN Fail(L, L0, DecodeError)
         ELSE LET amount == abi_decode(cleartexts)
                  L1 == ConsumePending(L0, requestId, pending.tokenId)
              IN IF amount > L1.balance THEN Fail(L, L1, TransferFailed)
                 ELSE LET L2 == SendValue(L1, pending.recipient, amount, requestId, pending.tokenId)
                      IN IF pending.recipient \in Contracts
                         THEN Suspend(L2, "receive",
                                      [callee |-> pending.recipient,
                                       tokenId |-> pending.tokenId, amount |-> amount])
                         ELSE fulfillAfterTransfer(L2, pending.recipient, pending.tokenId, amount)

\* mutation: a failed transfer ends the call without restoring the consumed record
fulfillResume_KeepsConsumed(pre, L, ctx, success) ==
    IF ~success THEN Fail(L, L, TransferFailed)
    ELSE fulfillAfterTransfer(L, ctx.callee, ctx.tokenId, ctx.amount)
\* line 152: require(success, "Transfer failed")
fulfillResume(pre, L, ctx, success) ==
    IF ~success THEN Fail(pre, L, TransferFailed)
    ELSE fulfillAfterTransfer(L, ctx.callee, ctx.tokenId, ctx.amount)

\* ------------------------------------------------------------------ views
\* lines 63-67
getEncryptedStake(L, tokenId) ==
    LET encryptedAmount == L.encryptedStakes[tokenId] IN
    IF ~FHE_isInitialized(encryptedAmount) THEN [err |-> StakeNotFound, ret |-> NoHandle]
    ELSE [err |-> Ok, ret |-> encryptedAmount]
\* lines 72-78: tokenOfOwnerByIndex(account, i) for i = 0 .. balanceOf(account) - 1
tokensOf(L, account) == [i \in 1..balanceOf(L, account) |-> L.ownedTokens[account][i]]
\* lines 83-88
pendingRequestForToken(L, tokenId) ==
    IF ~L.isTokenPending[tokenId] THEN 0 ELSE L.requestByToken[tokenId]
\* lines 93-95 (the getter of the pending flag)
isTokenPendingOf(L, tokenId) == L.isTokenPending[tokenId]

\* ---------------------------------------------------------------- actions
Idle == "idle"
NoFrame == [op |-> "none", sender |-> Zero, arg |-> 0,
            callee |-> Zero, tokenId |-> 0, amount |-> 0]
NoSnapshot == <<>>
NoAbort == [op |-> "none", arg |-> 0, err |-> Ok]

Init ==
    /\ decryptionOracle = Oracle
    /\ enforceOracleCheck \in BOOLEAN
    /\ nextTokenId = 1
    /\ encryptedStakes = [t \in TokenIds |-> NoHandle]
    /\ pendingByRequest = [r \in RequestIds |-> NoPending]
    /\ requestByToken = [t \in TokenIds |-> 0]
    /\ isTokenPending = [t \in TokenIds |-> FALSE]
    /\ owners = [t \in TokenIds |-> Zero]
    /\ tokenApprovals = [t \in TokenIds |-> Zero]
    /\ operatorApprovals = {}
    /\ ownedTokens = [a \in Addr |-> <<>>]
    /\ status = NOT_ENTERED
    /\ balance = 0
    /\ transfers = <<>>
    /\ log = <<>>
    /\ ciphertexts = <<>>
    /\ acl = <<>>
    /\ requestedHandles = [r \in RequestIds |-> <<>>]
    /\ counterRequest = 0
    /\ pc = Idle
    /\ frame = NoFrame
    /\ saved = NoSnapshot
    /\ aborted = NoAbort

\* While a callee's hook runs, only that callee can call into the ledger.
MayCall(sender) == pc = Idle \/ sender = frame.callee

\* A call made from inside a hook runs to completion inside the hook.
Settle(pre, R, sender) ==
    IF R.hook = "onERC721Received" THEN stakeResume(pre, R.L, sender, R.ctx, TRUE)
    ELSE IF R.hook = "receive" THEN fulfillResume(pre, R.L, R.ctx, TRUE)
    ELSE R

\* Runs the call whose outcome is R: a top-level call returns, reverts or is
\* suspended in a hook; a failed call leaves every variable as it was.
Run(op, sender, arg, R) ==
    IF pc = Idle
    THEN IF R.hook = NoHook
         THEN /\ Commit(R.L)
              /\ aborted' = IF R.err = Ok THEN NoAbort ELSE aborted
              /\ UNCHANGED <<pc, frame, saved>>
         ELSE /\ Commit(R.L)
              /\ pc' = R.hook
              /\ frame' = [op |-> op, sender |-> sender, arg |-> arg,
                           callee |-> R.ctx.callee, tokenId |-> R.ctx.tokenId,
                           amount |-> R.ctx.amount]
              /\ saved' = Ledger
              /\ aborted' = NoAbort
    ELSE /\ Commit(Settle(Ledger, R, sender).L)
         /\ UNCHANGED <<pc, frame, saved, aborted>>

Stake(sender, value) ==
    /\ MayCall(sender)
    /\ value = 0 \/ nextTokenId <= MaxTokens
    /\ Run("stake", sender, value, stake(Ledger, sender, value))
    /\ UNCHANGED immutables

Redeem(sender, tokenId) ==
    /\ MayCall(sender)
    /\ Run("redeem", sender, tokenId, redeem(Ledger, sender, tokenId))
    /\ UNCHANGED immutables

Cleartexts == {<<>>} \cup {<<v>> : v \in 1..MaxAmount}
Proofs == {Forged} \cup KmsProofs(Ledger)

Fulfill(sender, requestId, cleartexts, decryptionProof) ==
    /\ MayCall(sender)
    /\ Run("fulfill", sender, requestId,
           onDecryptionFulfilled(Ledger, sender, requestId, cleartexts, decryptionProof))
    /\ UNCHANGED immutables

\* The callee's hook ends: it accepts, or it reverts / answers wrongly.
\* aborted is history: the suspended call that has just ended in a revert, until
\* the next call that changes the ledger.
HookReturn(accepted) ==
    /\ pc # Idle
    /\ LET R == IF pc = "onERC721Received"
                THEN stakeResume(saved, Ledger, frame.sender, frame, accepted)
                ELSE fulfillResume(saved, Ledger, frame, accepted)
       IN /\ Commit(R.L)
          /\ aborted' = IF R.err = Ok THEN NoAbort
                         ELSE [op |-> frame.op, arg |-> frame.arg, err |-> R.err]
    /\ pc' = Idle
    /\ frame' = NoFrame
    /\ saved' = NoSnapshot
    /\ UNCHANGED immutables

\* ERC-721 entry points of the inherited registry (not nonReentrant)
ApprovalCount == Cardinality(operatorApprovals)
                 + Cardinality({t \in TokenIds : tokenApprovals[t] # Zero})

TransferFrom(sender, from, to, tokenId) ==
    /\ MayCall(sender)
    /\ from # Zero /\ _ownerOf(Ledger, tokenId) = from
    /\ _isAuthorized(Ledger, from, sender, tokenId)
    /\ Commit(_update(Ledger, to, tokenId))
    /\ aborted' = NoAbort
    /\ UNCHANGED <<immutables, pc, frame, saved>>

Approve(sender, to, tokenId) ==
    /\ MayCall(sender)
    /\ _ownerOf(Ledger, tokenId) # Zero
    /\ sender = _ownerOf(Ledger, tokenId) \/ isApprovedForAll(Ledger, _ownerOf(Ledger, tokenId), sender)
    /\ to # tokenApprovals[tokenId] /\ to # _ownerOf(Ledger, tokenId)
    /\ to = Zero \/ tokenApprovals[tokenId] # Zero \/ ApprovalCount < MaxApprovals
    /\ Commit([Ledger EXCEPT !.tokenApprovals[tokenId] = to])
    /\ aborted' = NoAbort
    /\ UNCHANGED <<immutables, pc, frame, saved>>

SetApprovalForAll(sender, operator, approved) ==
    /\ MayCall(sender)
    /\ operator # sender
    /\ approved # (<<sender, operator>> \in operatorApprovals)
    /\ approved => ApprovalCount < MaxApprovals
    /\ Commit([Ledger EXCEPT !.operatorApprovals =
                   IF approved THEN @ \cup {<<sender, operator>>} ELSE @ \ {<<sender, operator>>}])
    /\ aborted' = NoAbort
    /\ UNCHANGED <<immutables, pc, frame, saved>>

\* The callers the transitions are drawn from: the designated oracle and one
\* other principal relay the callback; the properties range over all of Addr.
Relayers == {Oracle} \cup Contracts

Next ==
    \/ \E sender \in Users, value \in Values : Stake(sender, value)
    \/ \E sender \in Users, tokenId \in TokenIds : Redeem(sender, tokenId)
    \/ \E sender \in Relayers, requestId \in RequestIds, cleartexts \in Cleartexts,
          decryptionProof \in Proofs :
            Fulfill(sender, requestId, cleartexts, decryptionProof)
    \/ \E accepted \in BOOLEAN : HookReturn(accepted)
    \/ \E sender \in Users, from \in Users, to \in Users, tokenId \in TokenIds :
            TransferFrom(sender, from, to, tokenId)
    \/ \E sender \in Users, to \in Users \cup {Zero}, tokenId \in TokenIds :
            Approve(sender, to, tokenId)
    \/ \E sender \in EOAs, operator \in Users, approved \in BOOLEAN :
            SetApprovalForAll(sender, operator, approved)

Spec == Init /\ [][Next]_vars

\* ------------------------------------------ runs with three certificates
\* The same ledger with room for MaxEnumTokens certificates, driven by stakes of
\* externally owned accounts, transfers by the holder and redeems.
EnumTokenIds == 0..MaxEnumTokens
EnumInit ==
    /\ decryptionOracle = Oracle
    /\ enforceOracleCheck \in BOOLEAN
    /\ nextTokenId = 1
    /\ encryptedStakes = [t \in EnumTokenIds |-> NoHandle]
    /\ pendingByRequest = [r \in EnumTokenIds |-> NoPending]
    /\ requestByToken = [t \in EnumTokenIds |-> 0]
    /\ isTokenPending = [t \in EnumTokenIds |-> FALSE]
    /\ owners = [t \in EnumTokenIds |-> Zero]
    /\ tokenApprovals = [t \in EnumTokenIds |-> Zero]
    /\ operatorApprovals = {}
    /\ ownedTokens = [a \in Addr |-> <<>>]
    /\ status = NOT_ENTERED
    /\ balance = 0
    /\ transfers = <<>>
    /\ log = <<>>
    /\ ciphertexts = <<>>
    /\ acl = <<>>
    /\ requestedHandles = [r \in EnumTokenIds |-> <<>>]
    /\ counterRequest = 0
    /\ pc = Idle
    /\ frame = NoFrame
    /\ saved = NoSnapshot
    /\ aborted = NoAbort

EnumStake(sender) ==
    /\ nextTokenId <= MaxEnumTokens
    /\ Run("stake", sender, 1, stake(Ledger, sender, 1))
    /\ UNCHANGED immutables

EnumNext ==
    \/ \E sender \in EOAs : EnumStake(sender)
    \/ \E sender \in Users, tokenId \in EnumTokenIds : Redeem(sender, tokenId)
    \/ \E from \in Users, to \in Users, tokenId \in EnumTokenIds :
            TransferFrom(from, from, to, tokenId)

EnumSpec == EnumInit /\ [][EnumNext]_vars

\* ------------------------------------------------------------ properties
\* decryptionProof is the KMS's signature over exactly (requestId, cleartexts).
Genuine(requestId, cleartexts, decryptionProof) ==
    /\ decryptionProof \in KmsProofs(Ledger)
    /\ decryptionProof.requestId = requestId
    /\ decryptionProof.cleartexts = cleartexts
\* The call gets past the checks that come before the ledger's own tables are
\* read: the reentrancy guard and, in strict mode, the sender check.
TopLevel == status = NOT_ENTERED
Admitted(sender) == TopLevel /\ (enforceOracleCheck => sender = decryptionOracle)
\* The stakes the bounded model lets a caller make.
StakeInputs == {v \in Values : v = 0 \/ nextTokenId <= MaxTokens}

Events(name, tokenId) == {i \in DOMAIN log : log[i].name = name /\ log[i].tokenId = tokenId}
Redeemed(tokenId) == Events("WithdrawRequested", tokenId) # {}
Paid(requestId) == {i \in DOMAIN transfers : transfers[i].requestId = requestId}
\* A fulfill of requestId has returned successfully.
Fulfilled(requestId) == Paid(requestId) # {} /\ ~(pc = "receive" /\ frame.arg = requestId)
Live == {t \in TokenIds : owners[t] # Zero}
PendingTokens == {t \in TokenIds : isTokenPending[t]}
\* The amount that was encrypted for a live certificate / for a pending one.
StakedAmount(t) == IF encryptedStakes[t] = NoHandle THEN 0 ELSE ciphertexts[encryptedStakes[t]]
PendingAmount(t) == Decryption(Ledger, requestByToken[t])[1]
MintedAmount(t) == ciphertexts[log[CHOOSE i \in Events("StakeMinted", t) : TRUE].data]
RequestEvent(t) == log[CHOOSE i \in Events("WithdrawRequested", t) : TRUE]

\* C1: value is transferred for a requestId at most once: once a fulfill of
\* requestId has succeeded, every later fulfill with that requestId, whatever the
\* caller, cleartext and proof, fails and transfers nothing, and it fails
\* UnknownRequest whenever it is admitted by the reentrancy guard and sender check.
C1_FulfillAtMostOnce ==
    \A r \in RequestIds :
        /\ Cardinality(Paid(r)) <= 1
        /\ Fulfilled(r) =>
             \A sender \in Addr, c \in Cleartexts, p \in Proofs :
                LET R == onDecryptionFulfilled(Ledger, sender, r, c, p) IN
                /\ R.err # Ok
                /\ R.L = Ledger
                /\ Admitted(sender) => R.err = UnknownRequest
C1_Witness == \E r \in RequestIds : Fulfilled(r) /\ pc = Idle /\ balance > 0

\* C2 (as claimed): fulfill with a forged or mismatched proof fails InvalidProof
\* and transfers nothing, for every requestId, with or without a pending record,
\* and every caller.
C2_ForgedProofAlwaysInvalidProof ==
    \A sender \in Addr, r \in RequestIds, c \in Cleartexts, p \in Proofs :
        ~Genuine(r, c, p) =>
            LET R == onDecryptionFulfilled(Ledger, sender, r, c, p) IN
            R.err = InvalidProof /\ R.L = Ledger
\* C2 (amended): fulfill with a forged or mismatched proof always fails and
\* transfers nothing; the failure is InvalidProof exactly when the call is
\* admitted and a pending record exists for requestId, and UnknownRequest when it
\* is admitted and no record exists (the record is looked up before the proof).
C2_ForgedProofNeverPays ==
    \A sender \in Addr, r \in RequestIds, c \in Cleartexts, p \in Proofs :
        ~Genuine(r, c, p) =>
            LET R == onDecryptionFulfilled(Ledger, sender, r, c, p) IN
            /\ R.err # Ok
            /\ R.L = Ledger
            /\ R.err = InvalidProof <=> (Admitted(sender) /\ pendingByRequest[r].exists)
            /\ (Admitted(sender) /\ ~pendingByRequest[r].exists) => R.err = UnknownRequest
C2_Witness ==
    /\ pc = Idle
    /\ \E r \in RequestIds : pendingByRequest[r].exists /\ balance > 0
    /\ \E r \in RequestIds : ~pendingByRequest[r].exists

\* C3: between calls the value held by the ledger is the sum of the amounts
\* staked for the live certificates and for the certificates with a pending
\* withdrawal.
C3_BalanceMatchesStakes ==
    pc = Idle =>
        balance = SumOver([t \in TokenIds |-> StakedAmount(t)], Live)
                  + SumOver([t \in TokenIds |-> PendingAmount(t)], PendingTokens)
C3_Witness == pc = Idle /\ transfers # <<>> /\ Live # {} /\ balance > 0

\* C4: at most one redeem succeeds for a certificate: once it is redeemed, every
\* later redeem of it by any caller fails and changes nothing, before and after
\* the fulfillment, with InvalidCertificate or Unauthorized when it is a
\* top-level call.
C4_RedeemAtMostOnce ==
    \A t \in TokenIds :
        /\ Cardinality(Events("WithdrawRequested", t)) <= 1
        /\ Redeemed(t) =>
             \A sender \in Addr :
                LET R == redeem(Ledger, sender, t) IN
                /\ R.err # Ok
                /\ R.L = Ledger
                /\ TopLevel => R.err \in {InvalidCertificate, Unauthorized}
C4_Witness ==
    \E t \in TokenIds : Redeemed(t) /\ ~isTokenPending[t] /\ pc = Idle /\ Live # {}

\* C5: every release pays the amount that was staked for its own certificate to
\* the beneficiary recorded when that certificate was redeemed, also when two
\* certificates are pending together and the callbacks arrive in either order.
C5_OwnAmountOwnBeneficiary ==
    \A i \in DOMAIN transfers :
        LET x == transfers[i] IN
        /\ Redeemed(x.tokenId)
        /\ x.amount = MintedAmount(x.tokenId)
        /\ x.to = RequestEvent(x.tokenId).staker
        /\ x.requestId = RequestEvent(x.tokenId).data
\* two certificates of different amounts, both redeemed before either callback,
\* the callbacks arriving in the order opposite to the redeems
C5_Witness ==
    /\ Len(log) = 6 /\ pc = Idle
    /\ log[3].name = "WithdrawRequested" /\ log[4].name = "WithdrawRequested"
    /\ log[5].name = "WithdrawCompleted" /\ log[5].tokenId = log[4].tokenId
    /\ log[6].name = "WithdrawCompleted" /\ log[6].tokenId = log[3].tokenId
    /\ log[5].data # log[6].data
    /\ log[5].staker # log[6].staker

\* The KMS signature the oracle would deliver for a request.
GenuineProof(requestId, amount) == [requestId |-> requestId, cleartexts |-> <<amount>>]
\* The snapshot a suspended call reverts to is the ledger before the call.
SavedIsPreState == (pc = Idle /\ pc' # Idle) => saved' = Ledger
\* The beneficiary's receive hook refuses the value of a suspended fulfill.
TransferRefused == pc = "receive" /\ HookReturn(FALSE)
\* The receiver hook refuses the certificate of a suspended stake.
MintRefused == pc = "onERC721Received" /\ HookReturn(FALSE)

\* C6 (as claimed): when the value transfer inside fulfill fails, the call fails
\* TransferFailed and leaves the pending record deleted and the certificate's
\* pending flag and request index cleared.
C6_TransferFailedLeavesRecordDeleted ==
    [][TransferRefused =>
          /\ aborted'.err = TransferFailed
          /\ ~pendingByRequest'[frame.arg].exists
          /\ ~isTokenPending'[frame.tokenId]
          /\ requestByToken'[frame.tokenId] = 0]_vars
\* C6 (amended): when the value transfer inside fulfill fails, the call fails
\* TransferFailed and the whole call is rolled back: the ledger is exactly as it
\* was before the call, so the pending record, the pending flag and the request
\* index are still in place and the value is still held; a later fulfill with the
\* same requestId and the genuine proof is accepted again.
C6_TransferFailedRollsBack ==
    [][/\ SavedIsPreState
       /\ TransferRefused =>
             /\ aborted'.err = TransferFailed
             /\ Ledger' = saved
             /\ pendingByRequest'[frame.arg].exists
             /\ pendingByRequest'[frame.arg].tokenId = frame.tokenId
             /\ isTokenPending'[frame.tokenId]
             /\ requestByToken'[frame.tokenId] = frame.arg
             /\ balance' = balance + frame.amount
             /\ LET R == onDecryptionFulfilled(Ledger', decryptionOracle, frame.arg,
                                               <<frame.amount>>,
                                               GenuineProof(frame.arg, frame.amount))
                IN R.err = Ok /\ R.hook = "receive"]_vars
\* a fulfill has just failed in the transfer and its request is still pending
C6_Witness ==
    /\ aborted.op = "fulfill" /\ aborted.err = TransferFailed
    /\ pendingByRequest[aborted.arg].exists
    /\ balance > 0

\* C7: every call of stake, redeem or fulfill that fails with an error other
\* than TransferFailed leaves the whole ledger (owners, next id, encrypted
\* balances, pending records, flags, request index, held value, event log) as it
\* was before the call, whether it fails in its own checks or in the receiver
\* hook of the mint.
C7_FailuresLeaveStateUnchanged ==
    /\ [](\A sender \in Addr :
            /\ \A value \in StakeInputs :
                 LET R == stake(Ledger, sender, value) IN
                 R.err \notin {Ok, TransferFailed} => R.L = Ledger
            /\ \A tokenId \in TokenIds :
                 LET R == redeem(Ledger, sender, tokenId) IN
                 R.err \notin {Ok, TransferFailed} => R.L = Ledger
            /\ \A requestId \in RequestIds, c \in Cleartexts, p \in Proofs :
                 LET R == onDecryptionFulfilled(Ledger, sender, requestId, c, p) IN
                 R.err \notin {Ok, TransferFailed} => R.L = Ledger)
    /\ [][/\ SavedIsPreState
          /\ MintRefused => (aborted'.err = InvalidReceiver /\ Ledger' = saved)]_vars
\* a stake has just failed in the receiver's hook while another certificate is staked
C7_Witness ==
    /\ aborted.op = "stake" /\ aborted.err = InvalidReceiver
    /\ Live # {} /\ balance > 0

\* C8: while a stake or fulfill call is suspended in a hook of its callee, the
\* guard is entered and every invocation of stake, redeem or fulfill, by any
\* caller and for any certificate or request, is rejected and changes nothing.
C8_ReentrantCallsRejected ==
    pc # Idle =>
        /\ status = ENTERED
        /\ \A sender \in Addr :
            /\ \A value \in Values :
                 LET R == stake(Ledger, sender, value) IN
                 R.err = ReentrantCall /\ R.L = Ledger
            /\ \A tokenId \in TokenIds :
                 LET R == redeem(Ledger, sender, tokenId) IN
                 R.err = ReentrantCall /\ R.L = Ledger
            /\ \A requestId \in RequestIds, c \in Cleartexts, p \in Proofs :
                 LET R == onDecryptionFulfilled(Ledger, sender, requestId, c, p) IN
                 R.err = ReentrantCall /\ R.L = Ledger
\* the beneficiary is inside its receive hook and owns another staked certificate
C8_Witness ==
    /\ pc = "receive"
    /\ \E t \in TokenIds : owners[t] = frame.callee /\ encryptedStakes[t] # NoHandle

\* C9: value leaves the ledger only inside a fulfill whose requestId was returned
\* by an earlier successful redeem of the same certificate: every transfer and
\* every WithdrawCompleted event follows the WithdrawRequested event of its
\* certificate, the held value only goes down in such a fulfill (or when a
\* suspended call is rolled back), and stake and redeem transfer nothing out.
C9_ValueLeavesOnlyByFulfill ==
    /\ [](/\ \A i \in DOMAIN transfers :
               \E j \in DOMAIN log :
                   /\ log[j].name = "WithdrawRequested"
                   /\ log[j].tokenId = transfers[i].tokenId
                   /\ log[j].data = transfers[i].requestId
          /\ \A k \in DOMAIN log :
               log[k].name = "WithdrawCompleted" =>
                   \E j \in 1..(k - 1) :
                       log[j].name = "WithdrawRequested" /\ log[j].tokenId = log[k].tokenId
          /\ \A sender \in Addr :
               /\ \A value \in StakeInputs :
                    LET R == stake(Ledger, sender, value) IN
                    R.L.transfers = transfers /\ R.L.balance >= balance
               /\ \A tokenId \in TokenIds :
                    LET R == redeem(Ledger, sender, tokenId) IN
                    R.L.transfers = transfers /\ R.L.balance = balance)
    /\ [][balance' < balance =>
             \/ /\ pc = Idle
                /\ Len(transfers') = Len(transfers) + 1
                /\ LET x == transfers'[Len(transfers')] IN
                   /\ x.amount = balance - balance'
                   /\ pendingByRequest[x.requestId].exists
                   /\ pendingByRequest[x.requestId].tokenId = x.tokenId
                   /\ Redeemed(x.tokenId)
                   /\ \E sender \in Relayers, c \in Cleartexts, p \in Proofs :
                          Fulfill(sender, x.requestId, c, p)
             \/ /\ pc # Idle
                /\ HookReturn(FALSE)
                /\ Ledger' = saved]_vars
\* value has left the ledger and the fulfill has returned
C9_Witness == transfers # <<>> /\ pc = Idle /\ Live # {}

\* C10 (as claimed): redeem of a certificate whose request is still pending
\* fails RedemptionAlreadyPending and changes no state.
C10_RedeemWhilePendingFailsAlreadyPending ==
    \A sender \in Addr, tokenId \in TokenIds :
        (isTokenPending[tokenId] /\ TopLevel) =>
            LET R == redeem(Ledger, sender, tokenId) IN
            R.err = RedemptionAlreadyPending /\ R.L = Ledger
\* C10 (amended): redeem of a certificate whose request is still pending fails and
\* changes no state, and the failure is InvalidCertificate: the certificate was
\* burned by the first redeem, so the owner check fails before the pending flag
\* is read.
C10_RedeemWhilePendingFailsInvalidCertificate ==
    \A sender \in Addr, tokenId \in TokenIds :
        isTokenPending[tokenId] =>
            LET R == redeem(Ledger, sender, tokenId) IN
            /\ R.err # Ok
            /\ R.L = Ledger
            /\ owners[tokenId] = Zero
            /\ TopLevel => R.err = InvalidCertificate
C10_Witness == \E t \in TokenIds : isTokenPending[t] /\ pc = Idle /\ Live # {}

\* The caller is the owner of the certificate, an operator of its owner, or the
\* address approved for it.
OwnerOrApproved(sender, tokenId) ==
    \/ sender = owners[tokenId]
    \/ <<owners[tokenId], sender>> \in operatorApprovals
    \/ sender = tokenApprovals[tokenId]

\* C11: redeem of a live certificate by a caller who is neither its owner nor
\* approved for it fails and changes nothing (owner, encrypted balance and
\* pending state included); the failure is Unauthorized whenever the call is not
\* made from inside a hook of a call in progress.
C11_NonOwnerRedeemFailsUnauthorized ==
    \A sender \in Addr, tokenId \in Live :
        ~OwnerOrApproved(sender, tokenId) =>
            LET R == redeem(Ledger, sender, tokenId) IN
            /\ R.err # Ok
            /\ R.L = Ledger
            /\ R.L.owners[tokenId] = owners[tokenId]
            /\ R.L.encryptedStakes[tokenId] = encryptedStakes[tokenId]
            /\ R.L.isTokenPending[tokenId] = isTokenPending[tokenId]
            /\ TopLevel => R.err = Unauthorized
\* two live certificates of different owners, one of them approved to a third
\* party or operator, with value held
C11_Witness ==
    /\ pc = Idle /\ balance > 0
    /\ \E t1 \in Live, t2 \in Live :
          /\ owners[t1] # owners[t2]
          /\ encryptedStakes[t1] # NoHandle /\ encryptedStakes[t2] # NoHandle
          /\ ~OwnerOrApproved(owners[t1], t2)

\* C12: once redeem(id) has succeeded, getEncryptedStake(id) fails StakeNotFound in
\* every later state: while the request is pending, after the fulfillment and
\* after further stakes.
C12_RedeemedBalanceNeverVisible ==
    \A tokenId \in TokenIds :
        Redeemed(tokenId) => getEncryptedStake(Ledger, tokenId).err = StakeNotFound
\* a certificate was redeemed and paid out, and a later stake has been made
C12_Witness ==
    /\ pc = Idle
    /\ \E i \in DOMAIN log, j \in DOMAIN log :
          /\ i < j
          /\ log[i].name = "WithdrawCompleted"
          /\ log[j].name = "StakeMinted"
          /\ getEncryptedStake(Ledger, log[j].tokenId).err = Ok

\* C13: stake with amount 0 fails and changes nothing: no certificate is minted,
\* the next id is not advanced, no balance is recorded and no event is emitted;
\* the failure is ZeroAmount whenever the call is not made from inside a hook.
C13_ZeroStakeFails ==
    \A sender \in Addr :
        LET R == stake(Ledger, sender, 0) IN
        /\ R.err # Ok
        /\ R.hook = NoHook
        /\ R.L = Ledger
        /\ R.L.nextTokenId = nextTokenId /\ R.L.owners = owners
        /\ R.L.encryptedStakes = encryptedStakes /\ R.L.log = log
        /\ R.L.balance = balance
        /\ TopLevel => R.err = ZeroAmount
\* a state in which a stake of a positive amount would be accepted
C13_Witness ==
    /\ pc = Idle /\ Live # {} /\ balance > 0
    /\ 1 \in StakeInputs
    /\ \E sender \in Users : stake(Ledger, sender, 1).err = Ok

\* The StakeMinted events in the order they were emitted.
IsStakeMinted(e) == e.name = "StakeMinted"
Minted == SelectSeq(log, IsStakeMinted)
\* Every id that has ever been bound to a certificate.
MintedIds == {Minted[i].tokenId : i \in DOMAIN Minted}

\* C14: certificate ids are never reused: the first successful stake gets id 1,
\* the k-th successful stake gets id k, whatever redeems and fulfillments have
\* burned earlier ids in between; a stake that succeeds returns the counter's
\* value, which is greater than every id minted before.
C14_IdsNeverReused ==
    /\ \A k \in DOMAIN Minted : Minted[k].tokenId = k
    /\ pc = Idle => nextTokenId = Len(Minted) + 1
    /\ \A t \in TokenIds : (owners[t] # Zero \/ Redeemed(t)) => (1 <= t /\ t < nextTokenId)
    /\ \A sender \in Addr, value \in StakeInputs :
          LET R == stake(Ledger, sender, value) IN
          (R.err = Ok /\ R.hook = NoHook) =>
              /\ R.ret = nextTokenId
              /\ \A t \in MintedIds : R.ret > t
              /\ R.L.nextTokenId = R.ret + 1
\* a second stake made after the first certificate was redeemed and paid out
C14_Witness ==
    /\ pc = Idle /\ Len(Minted) = 2
    /\ \E i \in DOMAIN log, j \in DOMAIN log :
          /\ i < j
          /\ log[i].name = "WithdrawCompleted" /\ log[i].tokenId = 1
          /\ log[j].name = "StakeMinted" /\ log[j].tokenId = 2

\* The stake of value by sender returns (directly, or when the receiver's hook
\* accepts the certificate) having minted tokenId.
StakeReturns(sender, value, tokenId) ==
    \/ /\ pc = Idle /\ Stake(sender, value) /\ pc' = Idle
       /\ tokenId = nextTokenId /\ nextTokenId' = nextTokenId + 1
    \/ /\ pc = "onERC721Received" /\ HookReturn(TRUE)
       /\ sender = frame.sender /\ value = frame.amount /\ tokenId = frame.tokenId

\* C15: when stake(amount) with amount > 0 succeeds, the encrypted balance bound
\* to the minted certificate decrypts to exactly amount, and the balance of a
\* certificate keeps decrypting to the same amount for as long as it is not
\* redeemed, whatever happens to other certificates.
C15_BalanceDecryptsToAmount ==
    [][/\ \A sender \in Users, value \in Values, tokenId \in TokenIds :
             StakeReturns(sender, value, tokenId) =>
                 /\ value > 0
                 /\ getEncryptedStake(Ledger, tokenId)'.err = Ok
                 /\ ciphertexts'[getEncryptedStake(Ledger, tokenId)'.ret] = value
       /\ \A tokenId \in TokenIds :
             (getEncryptedStake(Ledger, tokenId).err = Ok
                 /\ ~(\E sender \in Users : Redeem(sender, tokenId) /\ Redeemed(tokenId)')) =>
                 /\ getEncryptedStake(Ledger, tokenId)' = getEncryptedStake(Ledger, tokenId)
                 /\ StakedAmount(tokenId)' = StakedAmount(tokenId)]_vars
\* two certificates staked with different amounts, the first redeemed and paid
\* out, the second still bound to its amount
C15_Witness ==
    /\ pc = Idle /\ Len(Minted) = 2 /\ transfers # <<>>
    /\ getEncryptedStake(Ledger, 2).err = Ok
    /\ StakedAmount(2) = 2 /\ transfers[1].amount = 1

\* The WithdrawCompleted events of a certificate.
Completed(tokenId) == Events("WithdrawCompleted", tokenId)

\* C16: after stake(a), redeem of the minted certificate and a fulfill with the
\* valid proof of cleartext a, the completion event carries the amount a that was
\* staked, and from then on isTokenPending(id) is false and
\* pendingRequestForToken(id) is 0 in every later state.
C16_EndToEnd ==
    \A tokenId \in TokenIds :
        /\ Cardinality(Completed(tokenId)) <= 1
        /\ \A k \in Completed(tokenId) :
              /\ Redeemed(tokenId)
              /\ log[k].data = MintedAmount(tokenId)
              /\ log[k].data > 0
              /\ log[k].staker = RequestEvent(tokenId).staker
              /\ isTokenPendingOf(Ledger, tokenId) = FALSE
              /\ pendingRequestForToken(Ledger, tokenId) = 0
\* the first certificate went through stake, redeem and fulfill, and afterwards
\* a second one was staked and redeemed and is still pending
C16_Witness ==
    /\ pc = Idle
    /\ Completed(1) # {}
    /\ isTokenPendingOf(Ledger, 2) /\ pendingRequestForToken(Ledger, 2) = 1

\* The requests outstanding for a certificate.
RecordsOf(tokenId) ==
    {r \in RequestIds : pendingByRequest[r].exists /\ pendingByRequest[r].tokenId = tokenId}
\* A suspended call is reverted: the ledger returns to the state before the call.
RolledBack == pc # Idle /\ HookReturn(FALSE)

\* C17: in no reachable state does a certificate have both an initialized
\* encrypted balance and a pending withdrawal (flag or record); a certificate
\* becomes pending only in the step that clears its balance.
C17_BalancedOrPendingNeverBoth ==
    /\ [](\A tokenId \in TokenIds :
             ~(getEncryptedStake(Ledger, tokenId).err = Ok
                 /\ (isTokenPending[tokenId] \/ RecordsOf(tokenId) # {})))
    /\ [][\A tokenId \in TokenIds :
             (~isTokenPending[tokenId] /\ isTokenPending'[tokenId] /\ ~RolledBack) =>
                 /\ getEncryptedStake(Ledger, tokenId).err = Ok
                 /\ getEncryptedStake(Ledger, tokenId)'.err = StakeNotFound
                 /\ owners[tokenId] # Zero /\ owners'[tokenId] = Zero]_vars
\* one certificate is pending while another still has its balance
C17_Witness ==
    /\ pc = Idle
    /\ \E t1 \in TokenIds, t2 \in TokenIds :
          /\ isTokenPending[t1] /\ RecordsOf(t1) # {}
          /\ getEncryptedStake(Ledger, t2).err = Ok

\* C18: the pending tables are mutually consistent in every reachable state: a
\* certificate's pending flag is set iff exactly one record names it, never two;
\* pendingRequestForToken(id) then returns the requestId of that record, and it
\* returns 0 whenever the flag is not set.
C18_PendingTablesConsistent ==
    \A tokenId \in TokenIds :
        /\ Cardinality(RecordsOf(tokenId)) <= 1
        /\ isTokenPending[tokenId] <=> Cardinality(RecordsOf(tokenId)) = 1
        /\ isTokenPending[tokenId] =>
              \A r \in RecordsOf(tokenId) : pendingRequestForToken(Ledger, tokenId) = r
        /\ ~isTokenPending[tokenId] => pendingRequestForToken(Ledger, tokenId) = 0
\* two certificates pending at once, under different requests
C18_Witness ==
    /\ pc = Idle
    /\ isTokenPending[1] /\ isTokenPending[2]
    /\ pendingRequestForToken(Ledger, 1) # pendingRequestForToken(Ledger, 2)

\* C19: between calls, getEncryptedStake(id) succeeds iff id is a live
\* certificate; it fails StakeNotFound for ids never staked and for ids already
\* redeemed, and no encrypted balance is bound to two certificates.
C19_BalanceIffLive ==
    pc = Idle =>
        /\ \A tokenId \in TokenIds :
              /\ getEncryptedStake(Ledger, tokenId).err = Ok <=> tokenId \in Live
              /\ (tokenId \notin MintedIds \/ Redeemed(tokenId)) =>
                    getEncryptedStake(Ledger, tokenId).err = StakeNotFound
        /\ \A t1 \in Live, t2 \in Live :
              t1 # t2 => getEncryptedStake(Ledger, t1).ret # getEncryptedStake(Ledger, t2).ret
\* one certificate live and still holding its balance, one redeemed, and an id
\* that was never staked
C19_Witness ==
    /\ pc = Idle
    /\ \E t1 \in Live, t2 \in TokenIds, t3 \in TokenIds :
          /\ getEncryptedStake(Ledger, t1).err = Ok
          /\ Redeemed(t2)
          /\ t3 \notin MintedIds

\* C20: in strict mode fulfill by any caller other than the designated oracle
\* fails and changes nothing, whatever the requestId, cleartext and proof (with
\* InvalidOracle unless it is rejected as re-entrant); with the mode disabled,
\* fulfill by any caller with the valid proof of an existing request passes every
\* check and pays the beneficiary; the mode and the oracle never change.
C20_StrictSenderMode ==
    /\ [](/\ enforceOracleCheck =>
               \A sender \in Addr \ {decryptionOracle}, r \in RequestIds,
                  c \in Cleartexts, p \in Proofs :
                   LET R == onDecryptionFulfilled(Ledger, sender, r, c, p) IN
                   /\ R.err # Ok
                   /\ R.L = Ledger
                   /\ TopLevel => R.err = InvalidOracle
          /\ (~enforceOracleCheck /\ TopLevel) =>
               \A sender \in Addr, r \in RequestIds :
                   pendingByRequest[r].exists =>
                       LET c == Decryption(Ledger, r)
                           R == onDecryptionFulfilled(Ledger, sender, r, c,
                                                      GenuineProof(r, c[1]))
                       IN /\ R.err = Ok
                          /\ Len(R.L.transfers) = Len(transfers) + 1
                          /\ R.L.transfers[Len(R.L.transfers)].to = pendingByRequest[r].recipient
                          /\ ~R.L.pendingByRequest[r].exists)
    /\ [][UNCHANGED immutables]_vars
\* the mode is disabled, a payment has been made on a callback and another
\* request is pending with its value held
C20_Witness ==
    /\ pc = Idle /\ ~enforceOracleCheck
    /\ transfers # <<>> /\ balance > 0
    /\ \E r \in RequestIds : pendingByRequest[r].exists

MintEvent(tokenId) == log[CHOOSE i \in Events("StakeMinted", tokenId) : TRUE]
\* A successful top-level redeem of tokenId.
RedeemReturns(sender, tokenId) == Redeem(sender, tokenId) /\ ~Redeemed(tokenId) /\ Redeemed(tokenId)'

Issued == {r \in RequestIds : r < counterRequest}

\* C23: fulfill with a requestId that has no pending record, because no redeem
\* ever issued it or because it was already consumed, fails, transfers nothing and
\* changes no state, for every caller, cleartext and proof; the failure is
\* UnknownRequest whenever the call passes the reentrancy guard and the
\* strict-mode sender check.
C23_NoRecordFailsUnknownRequest ==
    \A sender \in Addr, r \in RequestIds, c \in Cleartexts, p \in Proofs :
        ~pendingByRequest[r].exists =>
            LET R == onDecryptionFulfilled(Ledger, sender, r, c, p) IN
            /\ R.err # Ok
            /\ R.L = Ledger
            /\ R.L.transfers = transfers /\ R.L.balance = balance
            /\ Admitted(sender) => R.err = UnknownRequest
\* one request was issued and consumed, another id was never issued, a third is
\* still pending; the proof of the consumed request is still a valid signature
C23_Witness ==
    /\ pc = Idle
    /\ \E r1 \in Issued, r2 \in RequestIds \ Issued, r3 \in Issued :
          /\ ~pendingByRequest[r1].exists /\ Paid(r1) # {}
          /\ ~pendingByRequest[r2].exists
          /\ pendingByRequest[r3].exists
          /\ GenuineProof(r1, transfers[1].amount) \in Proofs

\* The fulfill of requestId pays out in this step.
FulfillPays(requestId) ==
    /\ pc = Idle
    /\ Len(transfers') = Len(transfers) + 1
    /\ transfers'[Len(transfers')].requestId = requestId
    /\ \E sender \in Relayers, c \in Cleartexts, p \in Proofs : Fulfill(sender, requestId, c, p)

\* C24: there is no cancellation: a pending record is deleted, and a
\* certificate's pending flag and request index are cleared or changed, only by
\* the fulfill of that request that pays out; stake, redeem, failing fulfills and
\* fulfills of other requests leave them as they are.
C24_NoCancellation ==
    /\ [](\A r \in RequestIds :
             pendingByRequest[r].exists =>
                 LET t == pendingByRequest[r].tokenId
                     Kept(L) == /\ L.pendingByRequest[r] = pendingByRequest[r]
                                /\ L.isTokenPending[t] = isTokenPending[t]
                                /\ L.requestByToken[t] = requestByToken[t]
                 IN \A sender \in Addr :
                     /\ \A value \in StakeInputs : Kept(stake(Ledger, sender, value).L)
                     /\ \A tokenId \in TokenIds : Kept(redeem(Ledger, sender, tokenId).L)
                     /\ \A q \in RequestIds, c \in Cleartexts, p \in Proofs :
                           LET R == onDecryptionFulfilled(Ledger, sender, q, c, p) IN
                           (q # r \/ R.err # Ok) => Kept(R.L))
    /\ [][\A r \in RequestIds :
             pendingByRequest[r].exists =>
                 LET t == pendingByRequest[r].tokenId IN
                 (\/ pendingByRequest'[r] # pendingByRequest[r]
                  \/ isTokenPending'[t] # isTokenPending[t]
                  \/ requestByToken'[t] # requestByToken[t]) => FulfillPays(r)]_vars
\* one request has been consumed by its fulfill while another, issued earlier or
\* later, is still pending after further calls
C24_Witness ==
    /\ pc = Idle
    /\ \E r1 \in Issued, r2 \in Issued :
          /\ pendingByRequest[r1].exists /\ isTokenPending[pendingByRequest[r1].tokenId]
          /\ ~pendingByRequest[r2].exists /\ Completed(transfers[1].tokenId) # {}
          /\ transfers[1].requestId = r2

\* The oracle delivers the decryption of a submitted request with its KMS proof.
OracleFulfills(requestId) ==
    /\ pc = Idle
    /\ pendingByRequest[requestId].exists
    /\ Fulfill(decryptionOracle, requestId, Decryption(Ledger, requestId),
               GenuineProof(requestId, Decryption(Ledger, requestId)[1]))
OracleDelivers == \E requestId \in RequestIds : OracleFulfills(requestId)
\* The beneficiary's receive hook accepts the value.
BeneficiaryAccepts == pc = "receive" /\ HookReturn(TRUE)
\* A hook of a callee returns or reverts: transactions terminate.
HookEnds == \E accepted \in BOOLEAN : HookReturn(accepted)
\* The oracle keeps answering submitted requests (again, if an earlier callback
\* was reverted), and the beneficiary accepts the transfer.
Fairness ==
    /\ WF_vars(HookEnds)
    /\ SF_vars(BeneficiaryAccepts)
    /\ SF_vars(OracleDelivers)
FairSpec == Spec /\ Fairness

\* The staked amount of a redeemed certificate has been paid to its beneficiary
\* and the certificate is no longer pending.
Released(tokenId) ==
    /\ ~isTokenPendingOf(Ledger, tokenId)
    /\ Completed(tokenId) # {}
    /\ \E i \in DOMAIN transfers :
          /\ transfers[i].tokenId = tokenId
          /\ transfers[i].amount = MintedAmount(tokenId)
          /\ transfers[i].to = RequestEvent(tokenId).staker

\* C25: if the oracle eventually calls fulfill with the valid proof for every
\* submitted request and the beneficiary accepts the transfer, every successful
\* redeem is eventually followed by the release of the staked amount to the
\* beneficiary and by the certificate no longer being pending.  A redeem stays
\* on record and a release is final, so "redeemed implies released" holding again
\* and again means that every redeemed certificate gets released.
C25_RedeemEventuallyReleased ==
    /\ \A tokenId \in 1..MaxTokens : []<>(Redeemed(tokenId) => Released(tokenId))
    /\ [][\A tokenId \in 1..MaxTokens :
             /\ Redeemed(tokenId) => Redeemed(tokenId)'
             /\ Released(tokenId) => Released(tokenId)'
             /\ (Redeemed(tokenId) /\ ~Released(tokenId) /\ pc = Idle) =>
                    isTokenPendingOf(Ledger, tokenId)]_vars
\* both certificates have been redeemed and released, the second to a contract
C25_Witness ==
    /\ pc = Idle
    /\ Released(1) /\ Released(2)
    /\ \E i \in DOMAIN transfers : transfers[i].to \in Contracts

Viewers(tokenId) == acl[encryptedStakes[tokenId]]

\* C27 (as claimed): in every state between calls, the viewers of the encrypted
\* stake of a live certificate are the ledger and the certificate's current
\* owner, and nobody else: after a transfer the new owner is a viewer and the
\* previous owner is not.
C27_OnlyCurrentOwnerViews ==
    pc = Idle => \A tokenId \in Live : Viewers(tokenId) = {This, owners[tokenId]}
\* a certificate has been transferred: its holder is not a viewer of its balance
\* and the account that staked it still is
C27_Witness ==
    /\ pc = Idle
    /\ \E tokenId \in Live :
          /\ owners[tokenId] \notin Viewers(tokenId)
          /\ MintEvent(tokenId).staker \in Viewers(tokenId)
          /\ MintEvent(tokenId).staker # owners[tokenId]

\* The certificates an account holds.
HeldBy(account) == {t \in TokenIds : owners[t] = account}
\* The ids a sequence lists.
Range(s) == {s[i] : i \in DOMAIN s}

\* C28: tokensOf(owner) returns exactly the live certificates currently held by
\* owner, each id once: a certificate is listed from its mint until it is
\* redeemed or transferred away, and a redeemed certificate is never listed.
C28_TokensOfIsHoldings ==
    \A account \in Users :
        LET tokenIds == tokensOf(Ledger, account) IN
        /\ Range(tokenIds) = HeldBy(account)
        /\ Len(tokenIds) = Cardinality(HeldBy(account))
        /\ \A t \in Range(tokenIds) : ~Redeemed(t) /\ t \in Live
\* an account that has held two certificates has redeemed one and given the
\* other away
C28_Witness ==
    /\ pc = Idle
    /\ \E a \in Users, b \in Users :
          /\ a # b
          /\ tokensOf(Ledger, a) = <<>>
          /\ \E t1 \in TokenIds, t2 \in TokenIds :
                /\ Redeemed(t1) /\ RequestEvent(t1).staker = a
                /\ t2 \in MintedIds /\ MintEvent(t2).staker = a
                /\ tokensOf(Ledger, b) = <<t2>>

\* a comes before b in the sequence s
Before(s, a, b) == IndexOf(s, a) < IndexOf(s, b)

\* C29 (as claimed): tokensOf(owner) lists the owner's certificates in the order
\* in which the owner acquired them: every step keeps the relative order of the
\* certificates that stay in the list and puts a newly acquired one after them,
\* also when an earlier-acquired certificate is redeemed or transferred away.
C29_TokensOfInsertionOrder ==
    [][\A account \in Users :
          LET old == tokensOf(Ledger, account)
              new == tokensOf(Ledger, account)'
              kept == Range(old) \cap Range(new)
          IN /\ \A a \in kept, b \in kept : Before(old, a, b) <=> Before(new, a, b)
             /\ \A a \in kept, b \in Range(new) \ Range(old) : Before(new, a, b)]_vars
\* C29 (amended): tokensOf(owner) appends a newly acquired certificate at the end
\* of the owner's list; when a certificate is redeemed or transferred away, the
\* last id of the list takes its position and the other ids stay where they are.
\* The list is in acquisition order only as long as every certificate removed was
\* the last one listed.
C29_TokensOfSwapAndPop ==
    [][\A account \in Users :
          LET old == tokensOf(Ledger, account)
              new == tokensOf(Ledger, account)'
              gone == Range(old) \ Range(new)
              come == Range(new) \ Range(old)
          IN /\ Cardinality(gone) + Cardinality(come) <= 1
             /\ (gone = {} /\ come = {}) => new = old
             /\ \A t \in come : new = Append(old, t)
             /\ \A t \in gone :
                   /\ Len(new) = Len(old) - 1
                   /\ \A k \in DOMAIN new :
                         new[k] = IF k = IndexOf(old, t) THEN old[Len(old)] ELSE old[k]
                   /\ IndexOf(old, t) = Len(old) =>
                         \A a \in Range(new), b \in Range(new) :
                             Before(old, a, b) <=> Before(new, a, b)]_vars
\* an account acquired three certificates and the first was removed: the one
\* acquired last is now listed before the one acquired second
C29_Witness ==
    \E account \in Users, t2 \in EnumTokenIds, t3 \in EnumTokenIds :
        /\ tokensOf(Ledger, account) = <<t3, t2>>
        /\ t2 < t3
        /\ MintEvent(t2).staker = account /\ MintEvent(t3).staker = account
        /\ owners[1] # account

C31_NoUnboundLiveCertificate ==
    \A tokenId \in 1..MaxTokens :
        _ownerOf(Ledger, tokenId) # Zero => getEncryptedStake(Ledger, tokenId).err = Ok
\* the receiving contract has control inside the mint of stake: it owns the new
\* certificate, the value is held, and the certificate has no balance yet
C31_Witness ==
    /\ pc = "onERC721Received"
    /\ frame.op = "stake"
    /\ _ownerOf(Ledger, frame.tokenId) = frame.callee
    /\ balance >= frame.amount /\ frame.amount > 0
    /\ getEncryptedStake(Ledger, frame.tokenId).err = StakeNotFound
    /\ encryptedStakes[frame.tokenId] = NoHandle

Committed == IF pc = Idle THEN Ledger ELSE saved
\* Position of a certificate in its life cycle, read from the ledger L.
Unminted == 0
Staked == 1
Redeeming == 2
ReleasedPhase == 3
PhaseOf(L, tokenId) ==
    IF _ownerOf(L, tokenId) # Zero THEN Staked
    ELSE IF isTokenPendingOf(L, tokenId) THEN Redeeming
    ELSE IF tokenId < L.nextTokenId THEN ReleasedPhase
    ELSE Unminted

\* C33: each certificate only moves forward through Unminted -> Staked ->
\* Redeeming -> Released. Over the completed calls no step takes a certificate to
\* an earlier state, it advances one state at a time (Redeeming is entered only
\* from Staked, Released only from Redeeming), and a released certificate stays
\* released: not live, without balance, not pending, its value paid. Inside a
\* call the same holds, and a call that reverts puts the certificate back where
\* it was when the call began.
C33_LifecycleForwardOnly ==
    /\ [](\A tokenId \in 1..MaxTokens :
            (pc = Idle /\ PhaseOf(Ledger, tokenId) = ReleasedPhase) =>
                /\ Released(tokenId)
                /\ getEncryptedStake(Ledger, tokenId).err = StakeNotFound
                /\ pendingRequestForToken(Ledger, tokenId) = 0)
    /\ [][\A tokenId \in 1..MaxTokens :
            /\ PhaseOf(Committed, tokenId) <= PhaseOf(Committed, tokenId)'
            /\ PhaseOf(Committed, tokenId)' <= PhaseOf(Committed, tokenId) + 1
            /\ PhaseOf(Committed, tokenId) = ReleasedPhase =>
                  /\ PhaseOf(Committed, tokenId)' = ReleasedPhase
                  /\ PhaseOf(Ledger, tokenId)' = ReleasedPhase
            /\ ~RolledBack =>
                  /\ PhaseOf(Ledger, tokenId) <= PhaseOf(Ledger, tokenId)'
                  /\ PhaseOf(Ledger, tokenId)' <= PhaseOf(Ledger, tokenId) + 1
            /\ RolledBack => PhaseOf(Ledger, tokenId)' = PhaseOf(saved, tokenId)]_vars
\* one certificate has been released and the other one has advanced to
\* Redeeming after it
C33_Witness ==
    /\ pc = Idle
    /\ PhaseOf(Ledger, 1) = ReleasedPhase
    /\ PhaseOf(Ledger, 2) = Redeeming
    /\ Len(log) = 5

\* s is an initial part of t
IsPrefix(s, t) == Len(s) <= Len(t) /\ \A i \in DOMAIN s : s[i] = t[i]
\* the mint hook of stake for tokenId is open: the certificate exists and its
\* StakeMinted event (line 57) is still to come
MintOpen(tokenId) == pc = "onERC721Received" /\ frame.tokenId = tokenId

\* C34: the event log is in call order and per certificate holds exactly one
\* StakeMinted event, then at most one WithdrawRequested event, then at most one
\* WithdrawCompleted event. Events are only appended, one per successful call,
\* and a reverted call leaves none. A WithdrawCompleted event is logged only when
\* the value transfer has succeeded, and its beneficiary and certificate id are
\* those of the certificate's WithdrawRequested event.
C34_EventLogPerCertificate ==
    /\ [](\A tokenId \in 1..MaxTokens :
            /\ Cardinality(Events("StakeMinted", tokenId)) =
                   IF tokenId < nextTokenId /\ ~MintOpen(tokenId) THEN 1 ELSE 0
            /\ Cardinality(Events("WithdrawRequested", tokenId)) <= 1
            /\ Cardinality(Completed(tokenId)) <= 1
            /\ \A i \in Events("WithdrawRequested", tokenId) :
                  \E j \in Events("StakeMinted", tokenId) : j < i
            /\ \A k \in Completed(tokenId) :
                  /\ \E i \in Events("WithdrawRequested", tokenId) :
                        /\ i < k
                        /\ log[k].staker = log[i].staker
                        /\ log[k].tokenId = log[i].tokenId
                        /\ \E p \in Paid(log[i].data) :
                              /\ transfers[p].to = log[k].staker
                              /\ transfers[p].tokenId = tokenId
                              /\ transfers[p].amount = log[k].data
                  /\ ~(pc = "receive" /\ frame.tokenId = tokenId))
    /\ [][/\ ~RolledBack => IsPrefix(log, log') /\ Len(log') <= Len(log) + 1
          /\ RolledBack => log' = saved.log /\ IsPrefix(log', log)
          /\ TransferRefused => \A tokenId \in {frame.tokenId} : Completed(tokenId)' = {}
          /\ (pc = "receive" /\ HookReturn(TRUE)) =>
                /\ Completed(frame.tokenId) = {}
                /\ log' = Append(log, [name |-> "WithdrawCompleted", staker |-> frame.callee,
                                       tokenId |-> frame.tokenId, data |-> frame.amount])]_vars
\* the log holds the three events of one certificate in order, followed by the
\* mint of the next one
C34_Witness ==
    /\ pc = Idle
    /\ Len(log) = 4
    /\ log[1].name = "StakeMinted" /\ log[1].tokenId = 1
    /\ log[2].name = "WithdrawRequested" /\ log[2].tokenId = 1
    /\ log[3].name = "WithdrawCompleted" /\ log[3].tokenId = 1
    /\ log[4].name = "StakeMinted" /\ log[4].tokenId = 2

\* The request ids that have a pending record in the ledger L.
Records(L) == {r \in DOMAIN L.pendingByRequest : L.pendingByRequest[r].exists}

\* C35: a successful redeem never overwrites an existing pending record: the
\* requestId it returns is the id of no record that exists at that moment, every
\* existing record is still there unchanged afterwards, and the number of
\* records equals the number of pending certificates before and after.
C35_RedeemNeverOverwritesRecord ==
    /\ Cardinality(Records(Ledger)) = Cardinality(PendingTokens)
    /\ \A sender \in Users, tokenId \in 1..MaxTokens :
          LET R == redeem(Ledger, sender, tokenId) IN
          R.err = Ok =>
              /\ R.ret \notin Records(Ledger)
              /\ \A r \in Records(Ledger) :
                    R.L.pendingByRequest[r] = pendingByRequest[r]
              /\ Records(R.L) = Records(Ledger) \cup {R.ret}
              /\ Cardinality(Records(R.L)) = Cardinality(Records(Ledger)) + 1
              /\ Cardinality(Records(R.L)) =
                     Cardinality({t \in DOMAIN R.L.isTokenPending : R.L.isTokenPending[t]})
\* a record exists and a redeem of another certificate succeeds now, returning a
\* fresh requestId
C35_Witness ==
    /\ Cardinality(Records(Ledger)) = 1
    /\ \E sender \in Users, tokenId \in 1..MaxTokens :
          /\ redeem(Ledger, sender, tokenId).err = Ok
          /\ redeem(Ledger, sender, tokenId).ret \notin Records(Ledger)
          /\ Records(redeem(Ledger, sender, tokenId).L) = {0, 1}

\* C36: redeem of an id that is not a live certificate, because it was never
\* minted or because it is burned, fails and changes no state, for every caller;
\* the failure is InvalidCertificate whenever the call is not made from inside a
\* hook of a call in progress, although no caller is authorized for such an id:
\* the existence check comes before the authorization check.
C36_NotLiveFailsInvalidCertificate ==
    \A sender \in Addr, tokenId \in TokenIds :
        _ownerOf(Ledger, tokenId) = Zero =>
            LET R == redeem(Ledger, sender, tokenId) IN
            /\ R.err # Ok
            /\ R.L = Ledger
            /\ ~_isAuthorized(Ledger, _ownerOf(Ledger, tokenId), sender, tokenId)
            /\ R.err = IF TopLevel THEN InvalidCertificate ELSE ReentrantCall
\* between calls: certificate 1 is burned and released, id 2 has not been
\* minted, and an operator approval is in place
C36_Witness ==
    /\ pc = Idle
    /\ Redeemed(1) /\ ~isTokenPendingOf(Ledger, 1) /\ _ownerOf(Ledger, 1) = Zero
    /\ nextTokenId = 2 /\ _ownerOf(Ledger, 2) = Zero
    /\ operatorApprovals # {}

\* C37: a failing fulfill of any cause (wrong sender in strict mode, invalid
\* proof, undecodable cleartext, refused value transfer) does not consume the
\* request: the ledger is as before the call, so the pending record, the pending
\* flag and the request index are still present. As long as the record exists, a
\* fulfill by an admitted caller with the request's genuine proof is accepted,
\* consumes the record and sends the decrypted amount; no request is ever paid
\* more than once.
C37_FailedFulfillKeepsRequest ==
    /\ [](/\ \A sender \in Addr, r \in RequestIds, c \in Cleartexts, p \in Proofs :
                LET R == onDecryptionFulfilled(Ledger, sender, r, c, p) IN
                R.err # Ok =>
                    /\ R.L = Ledger
                    /\ Records(R.L) = Records(Ledger)
                    /\ R.L.isTokenPending = isTokenPending
          /\ \A sender \in Addr, r \in Records(Ledger) :
                Admitted(sender) =>
                    LET amount == Decryption(Ledger, r)[1]
                        R == onDecryptionFulfilled(Ledger, sender, r, <<amount>>,
                                                   GenuineProof(r, amount))
                    IN /\ R.err = Ok
                       /\ r \notin Records(R.L)
                       /\ ~R.L.isTokenPending[pendingByRequest[r].tokenId]
                       /\ R.L.balance = balance - amount
                       /\ R.L.transfers = Append(transfers,
                              [to |-> pendingByRequest[r].recipient, amount |-> amount,
                               requestId |-> r, tokenId |-> pendingByRequest[r].tokenId])
          /\ \A r \in RequestIds : Cardinality(Paid(r)) <= 1)
    /\ [][TransferRefused =>
             /\ frame.arg \notin Records(Ledger)
             /\ frame.arg \in Records(Ledger')
             /\ isTokenPendingOf(Ledger', frame.tokenId)
             /\ pendingRequestForToken(Ledger', frame.tokenId) = frame.arg
             /\ \A r \in {frame.arg} : Paid(r)' = {}
             /\ Ledger' = saved]_vars
\* a fulfill of the request failed in the transfer, the record was kept, and the
\* repeated fulfill has now paid the request
C37_Witness ==
    /\ pc = Idle
    /\ \E r \in RequestIds :
          /\ Cardinality(Paid(r)) = 1
          /\ transfers[CHOOSE i \in Paid(r) : TRUE].to \in Contracts
          /\ r \notin Records(Ledger)
    /\ aborted = NoAbort
    /\ Records(Ledger) # {}

\* C38: in every state between calls a certificate whose pending flag is set has
\* no owner and no encrypted balance, and every live certificate has a balance
\* and no pending flag. Consequently redeem never fails at its pending-flag
\* check or at its balance check: whatever the caller and the id, in every
\* reachable state, it succeeds or fails as re-entrant, InvalidCertificate or
\* Unauthorized.
C38_PendingAndBalanceGuardsNeverFail ==
    /\ pc = Idle =>
          \A tokenId \in TokenIds :
              /\ isTokenPendingOf(Ledger, tokenId) =>
                    /\ _ownerOf(Ledger, tokenId) = Zero
                    /\ ~FHE_isInitialized(encryptedStakes[tokenId])
              /\ _ownerOf(Ledger, tokenId) # Zero =>
                    /\ ~isTokenPendingOf(Ledger, tokenId)
                    /\ FHE_isInitialized(encryptedStakes[tokenId])
    /\ \A sender \in Addr, tokenId \in TokenIds :
          LET R == redeem(Ledger, sender, tokenId) IN
          /\ R.err \in {Ok, ReentrantCall, InvalidCertificate, Unauthorized}
          /\ R.err \notin {RedemptionAlreadyPending, StakeNotFound}
          /\ (TopLevel /\ _ownerOf(Ledger, tokenId) # Zero
                       /\ _isAuthorized(Ledger, _ownerOf(Ledger, tokenId), sender, tokenId)) =>
                 R.err = Ok
\* between calls: one certificate is pending, so a redeem of it stops at the
\* existence check, and one is live with an owner who can redeem it
C38_Witness ==
    /\ pc = Idle
    /\ \E t1 \in PendingTokens, t2 \in Live :
          /\ redeem(Ledger, pendingByRequest[requestByToken[t1]].recipient, t1).err = InvalidCertificate
          /\ redeem(Ledger, owners[t2], t2).err = Ok
          /\ redeem(Ledger, Oracle, t2).err = Unauthorized

\* The certificate state of tokenId is the same in the ledgers L and M.
SameCertificate(L, M, tokenId) ==
    /\ _ownerOf(M, tokenId) = _ownerOf(L, tokenId)
    /\ M.encryptedStakes[tokenId] = L.encryptedStakes[tokenId]
    /\ M.isTokenPending[tokenId] = L.isTokenPending[tokenId]
    /\ M.requestByToken[tokenId] = L.requestByToken[tokenId]
\* Every certificate other than tokenId and every record other than requestId's
\* is the same in L and M.
OthersUnchanged(L, M, tokenId, requestId) ==
    /\ \A t \in DOMAIN L.owners \ {tokenId} : SameCertificate(L, M, t)
    /\ \A r \in DOMAIN L.pendingByRequest \ {requestId} :
          M.pendingByRequest[r] = L.pendingByRequest[r]
NoRequest == MaxTokens + 1

\* C39: stake, redeem and fulfill acting on one certificate (or its request)
\* leave the owner, encrypted balance, pending flag, request index and pending
\* record of every other certificate unchanged: stake touches only the
\* certificate it mints and no record, redeem only its certificate and the
\* record of the request it issues, fulfill only its request's record and that
\* record's certificate; the completion of a suspended stake or fulfill does the
\* same, and a reverted one restores the state the call started from.
C39_OtherCertificatesUntouched ==
    /\ [](/\ \A sender \in Users, value \in StakeInputs :
                LET R == stake(Ledger, sender, value) IN
                OthersUnchanged(Ledger, R.L, nextTokenId, NoRequest)
          /\ \A sender \in Addr, tokenId \in TokenIds :
                LET R == redeem(Ledger, sender, tokenId) IN
                OthersUnchanged(Ledger, R.L, tokenId, R.ret)
          /\ \A sender \in Addr, r \in RequestIds, c \in Cleartexts, p \in Proofs :
                LET R == onDecryptionFulfilled(Ledger, sender, r, c, p) IN
                OthersUnchanged(Ledger, R.L, pendingByRequest[r].tokenId, r))
    /\ [][/\ (pc # Idle /\ HookReturn(TRUE)) =>
                /\ OthersUnchanged(Ledger, Ledger', frame.tokenId, NoRequest)
                /\ pc = "receive" => SameCertificate(Ledger, Ledger', frame.tokenId)
          /\ RolledBack => Ledger' = saved]_vars
\* one certificate has been redeemed and released while the other one is live
\* with its balance and can be redeemed by its owner
C39_Witness ==
    /\ pc = Idle
    /\ \E t1 \in 1..MaxTokens, t2 \in Live :
          /\ Released(t1)
          /\ FHE_isInitialized(encryptedStakes[t2])
          /\ redeem(Ledger, owners[t2], t2).err = Ok
          /\ OthersUnchanged(Ledger, redeem(Ledger, owners[t2], t2).L, t2, counterRequest)

====
